---------------------------- MODULE Spec2Model ----------------------------
(***************************************************************************)
(* A model of pronto's ingestion core: identifier normalisation            *)
(* (pronto/utils.py), the Entity view over EntityData (pronto/entity.py),  *)
(* the legacy OWL-XML ingestor with its classifier workers                 *)
(* (pronto/parser/owl.py) and the OBO-JSON ingestor                        *)
(* (pronto/parsers/obojson.py).                                            *)
(*                                                                         *)
(* Each subsystem has its own variables and its own specification; a       *)
(* specification leaves the variables of the other subsystems idle.        *)
(* Strings are sequences of one-character strings.                         *)
(***************************************************************************)
EXTENDS Integers, Sequences, FiniteSets, TLC

VARIABLES
    accRaw,     \* format_accession: the raw accession handed in
    accNs,      \* format_accession: the namespace map (ordered bindings)
    accOut,     \* result of format_accession(accRaw, accNs)
    accOut2,    \* result of format_accession(accOut, accNs)
    accTid,     \* the raw accession as the OWL-XML pipeline has normalized it
    accPc,      \* "raw" -> "once" -> "twice" -> "classified" -> "stored"
    entData,        \* the EntityData record the view refers to
    entDataAlive,   \* whether the weak reference to the EntityData is live
    entOntAlive,    \* whether the weak reference to the Ontology is live
    entSubsetdefs,  \* ids of the ontology's metadata.subsetdefs
    entLast,        \* the last access through the view and its outcome
    entAssigned,    \* per set-valued field, the last set assigned without error
    owlN,           \* number of classifier processes started by init_workers
    owlEvents,      \* (event, element) pairs iterparse has still to yield
    owlScan,        \* read()'s locals owl_imports, owl_class, rdf_resource
    owlNs,          \* OwlXMLParser._ns
    owlImports,     \* OwlXMLParser.imports
    owlRaw,         \* the _rawterms queue
    owlResults,     \* the _terms queue
    owlTerms,       \* OwlXMLParser.terms, the term table
    owlPc,          \* where the thread that calls read() and makeTree() is
    owlWorker,      \* per classifier process: its position and the term it holds
    owlQueued,      \* history: the elements read() has put on _rawterms
    owlEmitted,     \* history: the results the workers have put on _terms
    owlMerged,      \* history: the results makeTree has stored in the term table
    owlPoison,      \* history: "no", or the poison pair was "emitted", or "read"
    oboN,           \* number of threads of the ThreadPool
    oboDoc,         \* the document fastobo.load_graph returned: header and frames
    oboMetadata,    \* self.ont.metadata
    oboImports,     \* self.ont.imports
    oboTerms,       \* the ontology's entity table
    oboPc,          \* where the thread that calls parse_from is
    oboTask,        \* per frame: "new", "queued", "running", "done" or "failed"
    oboThread,      \* per pool thread: the frame it works on, 0 when idle
    oboWriters,     \* history: the threads that have written the entity table
    oboImportDepth, \* self.ont.import_depth, the import depth limit
    oboGraph,       \* the imports that each importable document declares
    oboStack,       \* the calls of process_imports that have not returned
    oboFetched,     \* history: the imports fetched, each with its depth
    nsAttr,         \* explicit_namespace: the attribute name handed in
    nsMap,          \* explicit_namespace: the namespace map
    nsOut,          \* explicit_namespace: the value returned or the error raised
    nsPc,           \* "call" -> "returned"
    cmtComment,     \* parse_comment: the comment handed in, None or its lines
    cmtIndex,       \* parse_comment: the line the loop is at (counted from 1)
    cmtParsed,      \* parse_comment: the dict parsed
    cmtPc,          \* "call" -> "scan" -> "post" -> "returned"
    cmtDefScanned,  \* history: the last def: line scanned, stripped
    cmtEntries,     \* history: the (ref, value) entries the scan has put in other
    clsTerm,        \* _classify: the element handed in
    clsTid,         \* _classify: the local tid
    clsIndex,       \* _classify: the descendant the loop is at (counted from 1)
    clsDict,        \* _classify: the local term_dict
    clsPc           \* "call" -> "scan" -> "returned", or "raised"

accVars == <<accRaw, accNs, accOut, accOut2, accTid, accPc>>
entVars == <<entData, entDataAlive, entOntAlive, entSubsetdefs, entLast, entAssigned>>
owlVars == <<owlN, owlEvents, owlScan, owlNs, owlImports, owlRaw, owlResults,
             owlTerms, owlPc, owlWorker, owlQueued, owlEmitted, owlMerged, owlPoison>>

oboImportVars == <<oboImportDepth, oboGraph, oboStack, oboFetched>>

oboVars == <<oboN, oboDoc, oboMetadata, oboImports, oboTerms, oboPc, oboTask,
             oboThread, oboWriters, oboImportVars>>

nsVars == <<nsAttr, nsMap, nsOut, nsPc>>

cmtVars == <<cmtComment, cmtIndex, cmtParsed, cmtPc, cmtDefScanned, cmtEntries>>

clsVars == <<clsTerm, clsTid, clsIndex, clsDict, clsPc>>

vars == <<accVars, entVars, owlVars, oboVars, nsVars, cmtVars, clsVars>>

\* What the actions of one subsystem leave alone.
notAccVars == <<entVars, owlVars, oboVars, nsVars, cmtVars, clsVars>>
notEntVars == <<accVars, owlVars, oboVars, nsVars, cmtVars, clsVars>>
notOwlVars == <<accVars, entVars, oboVars, nsVars, cmtVars, clsVars>>
notOboVars == <<accVars, entVars, owlVars, nsVars, cmtVars, clsVars>>
notNsVars == <<accVars, entVars, owlVars, oboVars, cmtVars, clsVars>>
notCmtVars == <<accVars, entVars, owlVars, oboVars, nsVars, clsVars>>
notClsVars == <<accVars, entVars, owlVars, oboVars, nsVars, cmtVars>>

(***************************************************************************)
(* Bounds of the model.                                                    *)
(***************************************************************************)
MaxLen == 3
MaxUriLen == 2
MaxNs == 1
MaxDoc == 2
MaxWorkers == 2
MaxLines == 3
MaxDepth == 2
MaxChildren == 3

(***************************************************************************)
(* Strings.                                                                *)
(***************************************************************************)
\* None where a string is expected (what term.get returns for a missing
\* attribute).
NoneStr == <<"<None>">>

Alphabet == {"a", "_", ":"}

StrUpTo(n) == UNION {[1..k -> Alphabet] : k \in 0..n}

StartsWith(s, p) == Len(s) >= Len(p) /\ SubSeq(s, 1, Len(p)) = p

Contains(s, p) ==
    \E i \in 1..(Len(s) - Len(p) + 1) : SubSeq(s, i, i + Len(p) - 1) = p

\* str.replace(old, new): every non-overlapping occurrence, left to right.
RECURSIVE StrReplace(_, _, _)
StrReplace(s, old, new) ==
    IF Len(old) = 0 \/ Len(s) < Len(old) THEN s
    ELSE IF SubSeq(s, 1, Len(old)) = old
         THEN new \o StrReplace(SubSeq(s, Len(old) + 1, Len(s)), old, new)
         ELSE <<Head(s)>> \o StrReplace(Tail(s), old, new)

\* str.replace(old, new, 1): the first occurrence only.
RECURSIVE StrReplaceFirst(_, _, _)
StrReplaceFirst(s, old, new) ==
    IF Len(old) = 0 \/ Len(s) < Len(old) THEN s
    ELSE IF SubSeq(s, 1, Len(old)) = old
         THEN new \o SubSeq(s, Len(old) + 1, Len(s))
         ELSE <<Head(s)>> \o StrReplaceFirst(Tail(s), old, new)

(***************************************************************************)
(* Namespace maps: a dict, modelled as the sequence of its bindings in     *)
(* iteration order.  NoNsmap is nsmap=None.                                *)
(***************************************************************************)
NoNsmap == <<[prefix |-> "None", uri |-> <<>>]>>

NsValues(nsmap) == [i \in 1..Len(nsmap) |-> nsmap[i].uri]

\* for v in nsmap.values(): accession = accession.replace(v, '')
RECURSIVE StripNamespaces(_, _)
StripNamespaces(accession, values) ==
    IF values = <<>> THEN accession
    ELSE StripNamespaces(StrReplace(accession, Head(values), <<>>), Tail(values))

\* The replacement without the test of the first character.
UnderscoreToColonAlways(accession) == StrReplace(accession, <<"_">>, <<":">>)

\* if not accession.startswith('_'): accession = accession.replace('_', ':')
UnderscoreToColon(accession) ==
    IF ~StartsWith(accession, <<"_">>)
    THEN StrReplace(accession, <<"_">>, <<":">>)
    ELSE accession

UnderscoreToColonFirst(accession) ==
    IF ~StartsWith(accession, <<"_">>)
    THEN StrReplaceFirst(accession, <<"_">>, <<":">>)
    ELSE accession

FormatAccessionFirstOnly(accession, nsmap) ==
    UnderscoreToColonFirst(
        IF nsmap # NoNsmap THEN StripNamespaces(accession, NsValues(nsmap))
        ELSE accession)

\* format_accession(None, nsmap): None has neither replace nor startswith,
\* the call raises AttributeError.
FormatAccessionRaises(accession) == accession = NoneStr

FormatAccession(accession, nsmap) ==
    UnderscoreToColon(
        IF nsmap # NoNsmap THEN StripNamespaces(accession, NsValues(nsmap))
        ELSE accession)

\* A namespace URI of the OWL-XML pipeline is one token of a string.
OwlUri == <<"http://www.w3.org/2002/07/owl#">>
RdfUri == <<"http://www.w3.org/1999/02/22-rdf-syntax-ns#">>
RdfsUri == <<"http://www.w3.org/2000/01/rdf-schema#">>
OboUri == <<"http://purl.obolibrary.org/obo/">>

\* The nsmap every classifier is built with.
WorkerNs == <<[prefix |-> "rdf", uri |-> RdfUri], [prefix |-> "rdfs", uri |-> RdfsUri]>>

(***************************************************************************)
(* Specification SpecAcc: format_accession applied to a raw accession and  *)
(* then to its own result; then the two stages of the OWL-XML pipeline,    *)
(* the classifier's normalization and makeTree's, applied to the same raw  *)
(* accession.                                                              *)
(***************************************************************************)
Uris == StrUpTo(MaxUriLen) \ {<<>>}

PrefixNames == <<"p1", "p2", "p3", "p4">>

NsMaps ==
    {NoNsmap} \cup
    UNION {{[i \in 1..k |-> [prefix |-> PrefixNames[i], uri |-> u[i]]] :
                u \in [1..k -> Uris]} : k \in 0..MaxNs}

AccInit ==
    /\ accRaw \in StrUpTo(MaxLen)
    /\ accNs \in NsMaps
    /\ accOut = <<>>
    /\ accOut2 = <<>>
    /\ accTid = <<>>
    /\ accPc = "raw"

AccIdle ==
    /\ accRaw = <<>>
    /\ accNs = NoNsmap
    /\ accOut = <<>>
    /\ accOut2 = <<>>
    /\ accTid = <<>>
    /\ accPc = "idle"

AccNormalize ==
    /\ accPc = "raw"
    /\ accOut' = FormatAccession(accRaw, accNs)
    /\ accPc' = "once"
    /\ UNCHANGED <<accRaw, accNs, accOut2, accTid>>
    /\ UNCHANGED notAccVars

AccRenormalize ==
    /\ accPc = "once"
    /\ accOut2' = FormatAccession(accOut, accNs)
    /\ accPc' = "twice"
    /\ UNCHANGED <<accRaw, accNs, accOut, accTid>>
    /\ UNCHANGED notAccVars

\* _classify: self.accession(...), format_accession with the classifier's map
AccClassify ==
    /\ accPc = "twice"
    /\ accTid' = FormatAccession(accRaw, WorkerNs)
    /\ accPc' = "classified"
    /\ UNCHANGED <<accRaw, accNs, accOut, accOut2>>
    /\ UNCHANGED notAccVars

\* makeTree: format_accession(tid, self._ns) on what the classifier returned
AccStore ==
    /\ accPc = "classified"
    /\ accTid' = FormatAccession(accTid, accNs)
    /\ accPc' = "stored"
    /\ UNCHANGED <<accRaw, accNs, accOut, accOut2>>
    /\ UNCHANGED notAccVars

AccNext == AccNormalize \/ AccRenormalize \/ AccClassify \/ AccStore

(***************************************************************************)
(* Entity: a view holding weak references to an Ontology and to an         *)
(* EntityData.  Python values are records [type, s, elems]; the elements   *)
(* of sets are atoms, each of one kind.  The fields modelled are id, name  *)
(* (the Optional[str] fields comment and namespace have the same code),    *)
(* obsolete (as have anonymous and builtin) and the four set-valued fields *)
(* that have a setter.                                                     *)
(***************************************************************************)
Atoms == {"s1", "s2", "syn", "xr"}

AtomKind(a) ==
    CASE a \in {"s1", "s2"} -> "str"
      [] a \in {"syn", "Synonym(syn)"} -> "Synonym"
      [] a = "xr" -> "Xref"
      [] OTHER -> "object"

PyNone == [type |-> "NoneType", s |-> "", elems |-> {}]
PyStr(x) == [type |-> "str", s |-> x, elems |-> {}]
PyBool(b) == [type |-> "bool", s |-> b, elems |-> {}]
PySet(E) == [type |-> "set", s |-> "", elems |-> E]

SetValues == {PySet(E) : E \in SUBSET Atoms}

\* What is assigned to a scalar field, and to a set-valued one.
ScalarValues == {PyNone, PyStr("s1"), PyBool("True")}
CollectionValues == SetValues \cup {PyNone}

\* __debug__ is true unless the interpreter runs with -O.
Debug == TRUE

IsSet(v) == v.type = "set"

\* self._data().<field> = value
StoreField(field, value) ==
    IF entDataAlive
    THEN [err |-> "ok", data |-> [entData EXCEPT ![field] = value]]
    ELSE [err |-> "AttributeError", data |-> entData]

Raise(e) == [err |-> e, data |-> entData]

alternate_ids_setter(ids) ==
    IF Debug /\ ~IsSet(ids) THEN Raise("TypeError")
    ELSE IF Debug /\ \E x \in ids.elems : AtomKind(x) = "str" THEN Raise("TypeError")
    ELSE StoreField("alternate_ids", ids.elems)

obsolete_setter(value) ==
    IF Debug /\ value.type # "bool" THEN Raise("TypeError")
    ELSE StoreField("obsolete", value)

id_setter_assigns(value) == StoreField("id", value)

id_setter(value) == Raise("RuntimeError")

name_setter(value) ==
    IF Debug /\ value.type \notin {"NoneType", "str"} THEN Raise("TypeError")
    ELSE StoreField("name", value)

\* for subset in subsets: self._ontology().metadata.subsetdefs is read for
\* each element, so an empty set never dereferences the ontology.
subsets_setter_unchecked(subsets) ==
    IF Debug /\ ~IsSet(subsets) THEN Raise("TypeError")
    ELSE IF Debug /\ \E x \in subsets.elems : AtomKind(x) # "str" THEN Raise("TypeError")
    ELSE StoreField("subsets", subsets.elems)

subsets_setter(subsets) ==
    IF Debug /\ ~IsSet(subsets) THEN Raise("TypeError")
    ELSE IF Debug /\ \E x \in subsets.elems : AtomKind(x) # "str" THEN Raise("TypeError")
    ELSE IF subsets.elems # {} /\ ~entOntAlive THEN Raise("AttributeError")
    ELSE IF \E x \in subsets.elems : x \notin entSubsetdefs THEN Raise("ValueError")
    ELSE StoreField("subsets", subsets.elems)

synonyms_setter(synonyms) ==
    IF Debug /\ ~IsSet(synonyms) THEN Raise("TypeError")
    ELSE IF Debug /\ \E x \in synonyms.elems : AtomKind(x) # "Synonym" THEN Raise("TypeError")
    ELSE StoreField("synonyms", synonyms.elems)

\* The element check iterates over the name synonyms, which is not bound in
\* the setter: building the generator raises NameError.
xrefs_setter(xrefs) ==
    IF Debug /\ ~IsSet(xrefs) THEN Raise("TypeError")
    ELSE IF Debug THEN Raise("NameError")
    ELSE StoreField("xrefs", xrefs.elems)

SetFields == {"alternate_ids", "subsets", "synonyms", "xrefs"}
Fields == {"id", "name", "obsolete"} \cup SetFields

\* Synonym(ontology, s), as the synonyms getter builds it.
SynonymView(s) == IF s = "syn" THEN "Synonym(syn)" ELSE s

\* return self._data().<field>, frozenset(...) for a set-valued field
Getter(field, synOk) ==
    IF ~entDataAlive THEN [err |-> "AttributeError", val |-> PyNone]
    ELSE IF field = "synonyms"
         THEN IF entData.synonyms # {} /\ ~entOntAlive /\ ~synOk
              THEN [err |-> "TypeError", val |-> PyNone]
              ELSE [err |-> "ok",
                    val |-> PySet({SynonymView(s) : s \in entData.synonyms})]
    ELSE IF field \in SetFields
         THEN [err |-> "ok", val |-> PySet(entData[field])]
    ELSE [err |-> "ok", val |-> entData[field]]

EntId0 == PyStr("GO:1")

EntData0 ==
    [id |-> EntId0, name |-> PyNone, obsolete |-> PyBool("False"),
     alternate_ids |-> {}, subsets |-> {}, synonyms |-> {}, xrefs |-> {}]

EntLast0 ==
    [op |-> "new", field |-> "", val |-> PyNone, err |-> "ok", changed |-> FALSE]

EntInit ==
    /\ entData = EntData0
    /\ entDataAlive = TRUE
    /\ entOntAlive = TRUE
    /\ entSubsetdefs \in SUBSET {"s1"}
    /\ entLast = EntLast0
    /\ entAssigned = [f \in SetFields |-> {}]

EntIdle ==
    /\ entData = EntData0
    /\ entDataAlive = FALSE
    /\ entOntAlive = FALSE
    /\ entSubsetdefs = {}
    /\ entLast = EntLast0
    /\ entAssigned = [f \in SetFields |-> {}]

\* One assignment entity.<field> = value, with the setter's outcome r.
EntSet(field, value, r) ==
    /\ entData' = r.data
    /\ entLast' = [op |-> "set", field |-> field, val |-> value, err |-> r.err,
                   changed |-> (r.data # entData)]
    /\ entAssigned' = IF r.err = "ok" /\ field \in SetFields
                      THEN [entAssigned EXCEPT ![field] = value.elems]
                      ELSE entAssigned
    /\ UNCHANGED <<entDataAlive, entOntAlive, entSubsetdefs>>
    /\ UNCHANGED notEntVars

EntSetAlternateIds == \E v \in CollectionValues : EntSet("alternate_ids", v, alternate_ids_setter(v))
EntSetObsolete == \E v \in ScalarValues : EntSet("obsolete", v, obsolete_setter(v))
EntSetId == \E v \in ScalarValues : EntSet("id", v, id_setter(v))
EntSetName == \E v \in ScalarValues : EntSet("name", v, name_setter(v))
EntSetSubsets == \E v \in CollectionValues : EntSet("subsets", v, subsets_setter(v))
EntSetSynonyms == \E v \in CollectionValues : EntSet("synonyms", v, synonyms_setter(v))
EntSetXrefs == \E v \in CollectionValues : EntSet("xrefs", v, xrefs_setter(v))

\* One read entity.<field>.
EntGet ==
    \E field \in Fields, synOk \in BOOLEAN :
        LET r == Getter(field, synOk) IN
        /\ entLast' = [op |-> "get", field |-> field, val |-> r.val, err |-> r.err,
                       changed |-> FALSE]
        /\ UNCHANGED <<entData, entDataAlive, entOntAlive, entSubsetdefs, entAssigned>>
        /\ UNCHANGED notEntVars

\* The last strong reference to the EntityData goes away.
EntDiscardData ==
    /\ entDataAlive
    /\ entDataAlive' = FALSE
    /\ entLast' = [EntLast0 EXCEPT !.op = "discard"]
    /\ UNCHANGED <<entData, entOntAlive, entSubsetdefs, entAssigned>>
    /\ UNCHANGED notEntVars

\* The last strong reference to the Ontology goes away.
EntDiscardOntology ==
    /\ entOntAlive
    /\ entOntAlive' = FALSE
    /\ entLast' = [EntLast0 EXCEPT !.op = "discard"]
    /\ UNCHANGED <<entData, entDataAlive, entSubsetdefs, entAssigned>>
    /\ UNCHANGED notEntVars

EntNext ==
    \/ EntSetAlternateIds
    \/ EntSetObsolete
    \/ EntSetId
    \/ EntSetName
    \/ EntSetSubsets
    \/ EntSetSynonyms
    \/ EntSetXrefs
    \/ EntGet
    \/ EntDiscardData
    \/ EntDiscardOntology

(***************************************************************************)
(* parse_comment (pronto/utils.py; _OwlXMLClassifier.parse_comment in      *)
(* pronto/parser/owl.py has the same body).  A comment is None or the list *)
(* of its lines, comment.split('\n'); a line is a string of characters.    *)
(* A value of the dict is a str or a list of str.                          *)
(***************************************************************************)
Chars(s) == [i \in 1..Len(s) |-> SubSeq(s, i, i)]

CStr(text) == [type |-> "str", text |-> text, items |-> <<>>]
CList(items) == [type |-> "list", text |-> <<>>, items |-> items]

RECURSIVE LStrip(_)
LStrip(s) == IF s # <<>> /\ Head(s) = " " THEN LStrip(Tail(s)) ELSE s

RECURSIVE RStrip(_)
RStrip(s) ==
    IF s # <<>> /\ s[Len(s)] = " " THEN RStrip(SubSeq(s, 1, Len(s) - 1)) ELSE s

\* s.strip()
Strip(s) == RStrip(LStrip(s))

\* s.split(sep, 1): the list of one or two parts.
RECURSIVE SplitOnceOn(_, _)
SplitOnceOn(s, sep) ==
    IF Len(s) < Len(sep) THEN <<s>>
    ELSE IF StartsWith(s, sep) THEN << <<>>, SubSeq(s, Len(sep) + 1, Len(s)) >>
    ELSE LET r == SplitOnceOn(Tail(s), sep)
         IN  [r EXCEPT ![1] = <<Head(s)>> \o @]

\* s.split(sep)[-1], acc being the part read since the last separator.
RECURSIVE LastPart(_, _, _)
LastPart(s, sep, acc) ==
    IF s = <<>> THEN acc
    ELSE IF StartsWith(s, sep)
         THEN LastPart(SubSeq(s, Len(sep) + 1, Len(s)), sep, <<>>)
         ELSE LastPart(Tail(s), sep, Append(acc, Head(s)))

\* "\n".join(lines)
RECURSIVE JoinLines(_)
JoinLines(lines) ==
    IF lines = <<>> THEN <<>>
    ELSE IF Len(lines) = 1 THEN lines[1]
    ELSE lines[1] \o <<"\n">> \o JoinLines(Tail(lines))

\* A dict is the sequence of its items in insertion order.
DictHas(d, key) == \E i \in 1..Len(d) : d[i].key = key
DictGet(d, key) == d[CHOOSE i \in 1..Len(d) : d[i].key = key].val
DictSet(d, key, val) ==
    IF DictHas(d, key)
    THEN [i \in 1..Len(d) |-> IF d[i].key = key THEN [key |-> key, val |-> val] ELSE d[i]]
    ELSE Append(d, [key |-> key, val |-> val])
DictDel(d, key) == SelectSeq(d, LAMBDA b : b.key # key)

NoDesc == CStr(<<"<unset>">>)

\* parsed = dict()
Parsed0 == [has_desc |-> FALSE, desc |-> NoDesc, has_other |-> FALSE, other |-> <<>>]

\* parsed['desc'] = value
SetDesc(parsed, value) == [parsed EXCEPT !.has_desc = TRUE, !.desc = value]

\* parsed['other'][ref] = value, parsed['other'] made when it is missing
SetOther(parsed, ref, value) ==
    [parsed EXCEPT !.has_other = TRUE, !.other = DictSet(parsed.other, ref, value)]

\* parsed['other'][ref].append(value), the key made when it is missing
AppendOther(parsed, ref, value) ==
    IF parsed.has_other /\ DictHas(parsed.other, ref)
    THEN SetOther(parsed, ref, CList(Append(DictGet(parsed.other, ref).items, value)))
    ELSE SetOther(parsed, ref, CList(<<value>>))

\* One iteration of the loop over the lines: the dict after it and
\* whether the loop was left by break.
ScanLine(parsed, lines, index) ==
    LET line == Strip(lines[index])
        rest == JoinLines(SubSeq(lines, index, Len(lines)))
    IN  IF StartsWith(line, Chars("Functional form:"))
        THEN [parsed |-> SetOther(parsed, Chars("functional form"), CStr(rest)),
              brk |-> TRUE]
        ELSE IF StartsWith(line, Chars("def:"))
        THEN [parsed |-> SetDesc(parsed, CStr(Strip(LastPart(line, Chars("def:"), <<>>)))),
              brk |-> FALSE]
        ELSE IF Contains(line, Chars(": "))
        THEN LET parts == SplitOnceOn(line, Chars(": "))
             IN  [parsed |-> AppendOther(parsed, Strip(parts[1]), Strip(parts[2])),
                  brk |-> FALSE]
        ELSE IF ~parsed.has_desc
        THEN [parsed |-> SetDesc(parsed, CStr(rest)), brk |-> TRUE]
        ELSE [parsed |-> parsed, brk |-> FALSE]

\* try: parsed['desc'] = parsed['other'][key]; del parsed['other'][key]
\* except KeyError: pass
TakeFromOther(parsed, key) ==
    IF DictHas(parsed.other, key)
    THEN [SetDesc(parsed, DictGet(parsed.other, key)) EXCEPT
             !.other = DictDel(parsed.other, key)]
    ELSE parsed

\* The post-pass without its test of 'desc' in parsed.
PostPassAlways(parsed) ==
    IF parsed.has_other
    THEN TakeFromOther(TakeFromOther(parsed, Chars("tempdef")), Chars("altdef"))
    ELSE parsed

\* The post-pass with its two tries in the other order.
PostPassAltdefFirst(parsed) ==
    IF ~parsed.has_desc /\ parsed.has_other
    THEN TakeFromOther(TakeFromOther(parsed, Chars("altdef")), Chars("tempdef"))
    ELSE parsed

\* if not 'desc' in parsed and 'other' in parsed: tempdef, then altdef
PostPass(parsed) ==
    IF ~parsed.has_desc /\ parsed.has_other
    THEN TakeFromOther(TakeFromOther(parsed, Chars("tempdef")), Chars("altdef"))
    ELSE parsed

\* The loop over the lines from index on, to its end or to a break.
RECURSIVE ScanFrom(_, _, _)
ScanFrom(parsed, lines, index) ==
    IF index > Len(lines) THEN parsed
    ELSE LET r == ScanLine(parsed, lines, index)
         IN  IF r.brk THEN r.parsed ELSE ScanFrom(r.parsed, lines, index + 1)

\* The comment None; any other comment is its lines, comment.split('\n').
NoComment == [none |-> TRUE, lines |-> <<>>]

\* parse_comment(comment)
ParseComment(comment) ==
    IF comment.none THEN Parsed0
    ELSE PostPass(ScanFrom(Parsed0, comment.lines, 1))

(***************************************************************************)
(* The legacy OWL-XML ingestor.                                            *)
(***************************************************************************)
NsGet(nsmap, prefix) ==
    LET hits == {i \in 1..Len(nsmap) : nsmap[i].prefix = prefix}
    IN  IF hits = {} THEN NoneStr ELSE nsmap[CHOOSE i \in hits : TRUE].uri

\* dict.update({prefix: uri}): a bound key keeps its place, a new one is last.
NsUpdate(nsmap, prefix, uri) ==
    IF \E i \in 1..Len(nsmap) : nsmap[i].prefix = prefix
    THEN [i \in 1..Len(nsmap) |->
             IF nsmap[i].prefix = prefix THEN [prefix |-> prefix, uri |-> uri]
             ELSE nsmap[i]]
    ELSE Append(nsmap, [prefix |-> prefix, uri |-> uri])

\* "".join(['{', uri, '}', term])
Qualified(uri, term) == <<"{">> \o uri \o <<"}", term>>

\* explicit_namespace(prefix:term, nsmap); the prefixes used are bound.
ExplicitNamespace(prefix, term, nsmap) == Qualified(NsGet(nsmap, prefix), term)

\* A descendant of a Class element: its expanded tag, its text, its
\* rdf:resource and rdf:about attributes (NoneStr when absent), and its text
\* as parse_comment takes it.
Child(tag, text, resource, about) ==
    [tag |-> tag, text |-> text, resource |-> resource, about |-> about,
     comment |-> NoComment]

Label(text) ==
    Child(ExplicitNamespace("rdfs", "label", WorkerNs), text, NoneStr, NoneStr)
SubClassOf(resource) ==
    Child(ExplicitNamespace("rdfs", "subClassOf", WorkerNs), <<>>, resource, NoneStr)
Comment(comment) ==
    [Child(ExplicitNamespace("rdfs", "comment", WorkerNs), JoinLines(comment.lines),
           NoneStr, NoneStr) EXCEPT !.comment = comment]

\* An element: its expanded tag, its rdf:about and rdf:resource attributes
\* (NoneStr when absent), whether it has any other attribute, its
\* descendants in document order, and whether etree.fromstring accepts the
\* bytes etree.tostring made of it.
Element(tag, about, resource, other, children, parses) ==
    [tag |-> tag, about |-> about, resource |-> resource, other |-> other,
     children |-> children, parses |-> parses]

NoElement == Element(<<>>, NoneStr, NoneStr, FALSE, <<>>, TRUE)

ClassTag == Qualified(OwlUri, "Class")
ImportsTag == Qualified(OwlUri, "imports")

IdA == OboUri \o <<"A", "_", "1">>
IdB == OboUri \o <<"B", "_", "1">>

ClassElements ==
    { Element(ClassTag, IdA, NoneStr, FALSE, <<Label(<<"n1">>)>>, TRUE),
      Element(ClassTag, IdA, NoneStr, FALSE, <<Label(<<"n2">>)>>, TRUE),
      Element(ClassTag, IdB, NoneStr, FALSE,
              <<Label(<<"n1">>), SubClassOf(IdA)>>, TRUE),
      Element(ClassTag, IdB, NoneStr, FALSE, <<Label(<<"n1">>)>>, FALSE),
      Element(ClassTag, NoneStr, NoneStr, TRUE, <<Label(<<"n1">>)>>, TRUE) }

OtherElements ==
    { Element(ClassTag, NoneStr, NoneStr, FALSE, <<>>, TRUE),
      Element(ImportsTag, NoneStr, OboUri \o <<"imp">>, FALSE, <<>>, TRUE),
      Element(Qualified(OwlUri, "Ontology"), IdA, NoneStr, FALSE, <<>>, TRUE) }

Elements == ClassElements \cup OtherElements

StartNs(prefix, uri) == [ev |-> "start-ns", prefix |-> prefix, uri |-> uri, elem |-> NoElement]
End(elem) == [ev |-> "end", prefix |-> "", uri |-> <<>>, elem |-> elem]

\* The namespace declarations of the root element; a document binds the OWL
\* namespace to the prefix owl or to another one.
Headers ==
    { <<StartNs(p, OwlUri), StartNs("rdf", RdfUri), StartNs("obo", OboUri)>> :
        p \in {"owl", "o"} }

Documents ==
    { h \o [i \in 1..Len(b) |-> End(b[i])] :
        h \in Headers, b \in UNION {[1..k -> Elements] : k \in 0..MaxDoc} }

\* bool(element.attrib)
HasAttrib(e) == e.about # NoneStr \/ e.resource # NoneStr \/ e.other

Workers == 1..owlN

(***************************************************************************)
(* _OwlXMLClassifier._classify                                             *)
(***************************************************************************)
TermDict0 ==
    [name |-> <<>>, is_a |-> <<>>, desc |-> CStr(<<>>), has_other |-> FALSE,
     other |-> <<>>]

\* term_dict.update(parsed): the keys of parsed replace those of term_dict.
UpdateDict(d, parsed) ==
    [d EXCEPT !.desc = IF parsed.has_desc THEN parsed.desc ELSE @,
              !.has_other = @ \/ parsed.has_other,
              !.other = IF parsed.has_other THEN parsed.other ELSE @]

\* The translator rules applied to one descendant, in their order.
\* The hook of the second rule: an rdfs:subClassOf with rdf:resource in
\* its attributes.
IsEdge(c) ==
    /\ c.tag = ExplicitNamespace("rdfs", "subClassOf", WorkerNs)
    /\ c.resource # NoneStr

\* c.get(rdf:resource) or c.get(rdf:about): an empty rdf:resource is falsy.
Target(c) == IF c.resource # <<>> THEN c.resource ELSE c.about

\* The callback of the second rule raises when its target is None.
ChildRaises(c) == IsEdge(c) /\ FormatAccessionRaises(Target(c))

\* The three rules of translator applied to one descendant, in their order.
ApplyRules(d, c) ==
    LET d1 == IF c.tag = ExplicitNamespace("rdfs", "label", WorkerNs)
              THEN [d EXCEPT !.name = c.text] ELSE d
        d2 == IF IsEdge(c)
              THEN [d1 EXCEPT !.is_a = Append(@, FormatAccession(Target(c), WorkerNs))]
              ELSE d1
    IN  IF c.tag = ExplicitNamespace("rdfs", "comment", WorkerNs)
        THEN UpdateDict(d2, ParseComment(c.comment))
        ELSE d2

RECURSIVE ScanChildren(_, _)
ScanChildren(d, children) ==
    IF children = <<>> THEN d
    ELSE ScanChildren(ApplyRules(d, Head(children)), Tail(children))

\* (tid, term_dict) for an element that has an rdf:about.
Classify(term) ==
    [tid |-> FormatAccession(term.about, WorkerNs),
     d |-> ScanChildren(TermDict0, term.children)]

\* _classify raises: format_accession is handed None for the id or for
\* the target of an edge.
ClassifyRaises(term) ==
    \/ FormatAccessionRaises(term.about)
    \/ \E i \in 1..Len(term.children) : ChildRaises(term.children[i])

Poison == [idx |-> 0, tid |-> NoneStr, d |-> TermDict0]
Sentinel == [idx |-> 0, elem |-> NoElement]

OwlInit ==
    /\ owlN \in 1..MaxWorkers
    /\ owlEvents \in Documents
    /\ owlScan = [owl_imports |-> <<>>, owl_class |-> <<>>, rdf_resource |-> <<>>]
    /\ owlNs = <<>>
    /\ owlImports = {}
    /\ owlRaw = <<>>
    /\ owlResults = <<>>
    /\ owlTerms = <<>>
    /\ owlPc = "read"
    /\ owlWorker = [w \in 1..owlN |-> [pc |-> "get", term |-> Sentinel]]
    /\ owlQueued = {}
    /\ owlEmitted = {}
    /\ owlMerged = {}
    /\ owlPoison = "no"

OwlIdle ==
    /\ owlN = 0
    /\ owlEvents = <<>>
    /\ owlScan = [owl_imports |-> <<>>, owl_class |-> <<>>, rdf_resource |-> <<>>]
    /\ owlNs = <<>>
    /\ owlImports = {}
    /\ owlRaw = <<>>
    /\ owlResults = <<>>
    /\ owlTerms = <<>>
    /\ owlPc = "idle"
    /\ owlWorker = <<>>
    /\ owlQueued = {}
    /\ owlEmitted = {}
    /\ owlMerged = {}
    /\ owlPoison = "no"

\* The number of the element that iterparse yields next, counted from the
\* end of the document: it tells two equal elements apart.
EventIdx == Len(owlEvents)

(***************************************************************************)
(* OwlXMLParser.read: one iteration of the loop over iterparse's events.   *)
(***************************************************************************)
OwlReadNs ==
    /\ owlPc = "read"
    /\ owlEvents # <<>>
    /\ Head(owlEvents).ev = "start-ns"
    /\ LET e == Head(owlEvents) IN
       /\ owlNs' = NsUpdate(owlNs, e.prefix, e.uri)
       /\ owlScan' =
            IF e.prefix = "owl"
            THEN [owlScan EXCEPT !.owl_imports = Qualified(e.uri, "imports"),
                                 !.owl_class = Qualified(e.uri, "Class")]
            ELSE IF e.prefix = "rdf"
            THEN [owlScan EXCEPT !.rdf_resource = Qualified(e.uri, "resource")]
            ELSE owlScan
    /\ owlEvents' = Tail(owlEvents)
    /\ UNCHANGED <<owlN, owlImports, owlRaw, owlResults, owlTerms, owlPc,
                   owlWorker, owlQueued, owlEmitted, owlMerged>>
    /\ UNCHANGED owlPoison
    /\ UNCHANGED notOwlVars

OwlReadElement ==
    /\ owlPc = "read"
    /\ owlEvents # <<>>
    /\ Head(owlEvents).ev = "end"
    /\ LET e == Head(owlEvents).elem IN
       IF e.tag = owlScan.owl_imports
       THEN \* self.imports.add(element.attrib[rdf_resource])
            /\ IF owlScan.rdf_resource # <<>> /\ e.resource # NoneStr
               THEN owlImports' = owlImports \cup {e.resource} /\ owlPc' = owlPc
               ELSE owlImports' = owlImports /\ owlPc' = "raised"
            /\ UNCHANGED <<owlRaw, owlQueued>>
       ELSE IF e.tag = owlScan.owl_class /\ HasAttrib(e)
       THEN /\ owlRaw' = Append(owlRaw, [idx |-> EventIdx, elem |-> e])
            /\ owlQueued' = owlQueued \cup {[idx |-> EventIdx, elem |-> e]}
            /\ UNCHANGED <<owlImports, owlPc>>
       ELSE UNCHANGED <<owlImports, owlPc, owlRaw, owlQueued>>
    /\ owlEvents' = Tail(owlEvents)
    /\ UNCHANGED <<owlN, owlScan, owlNs, owlResults, owlTerms,
                   owlWorker, owlEmitted, owlMerged>>
    /\ UNCHANGED owlPoison
    /\ UNCHANGED notOwlVars

\* The stream is exhausted: read() returns and makeTree() is called.
OwlReadDone ==
    /\ owlPc = "read"
    /\ owlEvents = <<>>
    /\ owlPc' = "test_terms"
    /\ UNCHANGED <<owlN, owlEvents, owlScan, owlNs, owlImports, owlRaw, owlResults,
                   owlTerms, owlWorker, owlQueued, owlEmitted, owlMerged>>
    /\ UNCHANGED owlPoison
    /\ UNCHANGED notOwlVars

(***************************************************************************)
(* _OwlXMLClassifier.run                                                   *)
(***************************************************************************)
\* term = self.queue.get(); if term is None: break
OwlWorkerGet(w) ==
    /\ owlWorker[w].pc = "get"
    /\ owlRaw # <<>>
    /\ owlRaw' = Tail(owlRaw)
    /\ owlWorker' = [owlWorker EXCEPT ![w] =
                        IF Head(owlRaw) = Sentinel
                        THEN [pc |-> "exited", term |-> Sentinel]
                        ELSE [pc |-> "classify", term |-> Head(owlRaw)]]
    /\ UNCHANGED <<owlN, owlEvents, owlScan, owlNs, owlImports, owlResults,
                   owlTerms, owlPc, owlQueued, owlEmitted, owlMerged>>
    /\ UNCHANGED owlPoison
    /\ UNCHANGED notOwlVars

\* What run() does with the term it holds: "poison" on ParseError,
\* "died" when format_accession is handed None (an AttributeError nobody
\* catches), "skip" for an empty result, else "emit".
RunOutcome(term) ==
    IF ~term.elem.parses THEN "poison"
    ELSE IF ~HasAttrib(term.elem) THEN "skip"
    ELSE IF ClassifyRaises(term.elem) THEN "died"
    ELSE "emit"

OwlWorkerClassify(w) ==
    /\ owlWorker[w].pc = "classify"
    /\ LET term == owlWorker[w].term
           out == RunOutcome(term)
           res == [idx |-> term.idx] @@ Classify(term.elem)
       IN  /\ owlResults' =
                CASE out = "poison" -> Append(owlResults, Poison)
                  [] out = "emit" -> Append(owlResults, res)
                  [] OTHER -> owlResults
           /\ owlEmitted' = IF out = "emit" THEN owlEmitted \cup {res} ELSE owlEmitted
           /\ owlPoison' = IF out = "poison" /\ owlPoison = "no" THEN "emitted"
                            ELSE owlPoison
           /\ owlWorker' = [owlWorker EXCEPT ![w] =
                [pc |-> CASE out = "poison" -> "exited"
                          [] out = "died" -> "died"
                          [] OTHER -> "get",
                 term |-> Sentinel]]
    /\ UNCHANGED <<owlN, owlEvents, owlScan, owlNs, owlImports, owlRaw,
                   owlTerms, owlPc, owlQueued, owlMerged>>
    /\ UNCHANGED notOwlVars

(***************************************************************************)
(* OwlXMLParser.makeTree                                                   *)
(***************************************************************************)
\* while not self._terms.empty() ...
OwlTestTerms ==
    /\ owlPc = "test_terms"
    /\ owlPc' = IF owlResults # <<>> THEN "get" ELSE "test_raw"
    /\ UNCHANGED <<owlN, owlEvents, owlScan, owlNs, owlImports, owlRaw, owlResults,
                   owlTerms, owlWorker, owlQueued, owlEmitted, owlMerged>>
    /\ UNCHANGED owlPoison
    /\ UNCHANGED notOwlVars

\* ... or not self._rawterms.empty():
OwlTestRaw ==
    /\ owlPc = "test_raw"
    /\ owlPc' = IF owlRaw # <<>> THEN "get" ELSE "shut"
    /\ UNCHANGED <<owlN, owlEvents, owlScan, owlNs, owlImports, owlRaw, owlResults,
                   owlTerms, owlWorker, owlQueued, owlEmitted, owlMerged>>
    /\ UNCHANGED owlPoison
    /\ UNCHANGED notOwlVars

\* self.terms[tid] = pronto.term.Term(tid, **d)
TermsPut(terms, tid, d) ==
    [x \in DOMAIN terms \cup {tid} |-> IF x = tid THEN d ELSE terms[x]]

\* tid = format_accession(tid, self._ns); the targets of every relation
\* likewise; self.terms[tid] = Term(tid, **d)
StoreTerm(terms, r, ns) ==
    TermsPut(terms, FormatAccession(r.tid, ns),
             [r.d EXCEPT !.is_a =
                 [i \in 1..Len(r.d.is_a) |-> FormatAccession(r.d.is_a[i], ns)]])

\* The body of the loop from the blocking get on: the poison pair ends the
\* loop, any other pair is normalised with the document's map and stored.
OwlMerge ==
    /\ owlPc = "get"
    /\ owlResults # <<>>
    /\ LET r == Head(owlResults) IN
       IF r = Poison
       THEN /\ owlPc' = "shut"
            /\ owlPoison' = "read"
            /\ UNCHANGED <<owlTerms, owlMerged>>
       ELSE /\ owlTerms' = StoreTerm(owlTerms, r, owlNs)
            /\ owlMerged' = owlMerged \cup {r}
            /\ owlPc' = "test_terms"
            /\ UNCHANGED owlPoison
    /\ owlResults' = Tail(owlResults)
    /\ UNCHANGED <<owlN, owlEvents, owlScan, owlNs, owlImports, owlRaw,
                   owlWorker, owlQueued, owlEmitted>>
    /\ UNCHANGED notOwlVars

\* self.shut_workers(): one sentinel per worker; makeTree returns.
OwlShutWorkers ==
    /\ owlPc = "shut"
    /\ owlRaw' = owlRaw \o [i \in 1..owlN |-> Sentinel]
    /\ owlPc' = "done"
    /\ UNCHANGED <<owlN, owlEvents, owlScan, owlNs, owlImports, owlResults,
                   owlTerms, owlWorker, owlQueued, owlEmitted, owlMerged>>
    /\ UNCHANGED owlPoison
    /\ UNCHANGED notOwlVars

OwlNext ==
    \/ OwlReadNs
    \/ OwlReadElement
    \/ OwlReadDone
    \/ \E w \in Workers : OwlWorkerGet(w)
    \/ \E w \in Workers : OwlWorkerClassify(w)
    \/ OwlTestTerms
    \/ OwlTestRaw
    \/ OwlMerge
    \/ OwlShutWorkers

(***************************************************************************)
(* The OBO-JSON ingestor.  Threads are numbered: 0 is the caller of        *)
(* parse_from, 1..oboN are the threads of the pool.  pool.map hands the    *)
(* frames to the pool one per task (the chunk size of map is 1 for a       *)
(* document of at most four frames per thread) and returns or raises once  *)
(* every task has ended.                                                   *)
(***************************************************************************)
MainThread == 0

Frame(id, name, malformed) == [id |-> id, name |-> name, malformed |-> malformed]

Frames == { Frame(id, "n1", m) : id \in {"GO:1", "GO:2"}, m \in BOOLEAN }

Header(subsetdefs, imports) == [subsetdefs |-> subsetdefs, imports |-> imports]

Headers0 == { Header({"s1"}, i) : i \in {{}, {"imp.json"}} }

NoMetadata == Header({}, {})

ImportUris == {"imp.json", "imp2.json"}

\* What the importable documents declare as imports: none, an import of
\* the document itself, two documents that import each other.
ImportGraphs ==
    { [u \in ImportUris |-> {}],
      [u \in ImportUris |-> IF u = "imp.json" THEN {"imp.json"} ELSE {}],
      [u \in ImportUris |-> IF u = "imp.json" THEN {"imp2.json"} ELSE {"imp.json"}] }

OboDocuments ==
    { [header |-> h, frames |-> f] :
        h \in Headers0, f \in UNION {[1..k -> Frames] : k \in 0..MaxDoc} }

OboInit ==
    /\ oboN \in 1..MaxWorkers
    /\ oboDoc \in OboDocuments
    /\ oboMetadata = NoMetadata
    /\ oboImports = {}
    /\ oboTerms = {}
    /\ oboPc = "metadata"
    /\ oboTask = [i \in 1..Len(oboDoc.frames) |-> "new"]
    /\ oboThread = [t \in 1..oboN |-> 0]
    /\ oboWriters = {}
    /\ oboImportDepth \in 0..MaxDepth
    /\ oboGraph \in ImportGraphs
    /\ oboStack = <<>>
    /\ oboFetched = {}

OboIdle ==
    /\ oboN = 0
    /\ oboDoc = [header |-> NoMetadata, frames |-> <<>>]
    /\ oboMetadata = NoMetadata
    /\ oboImports = {}
    /\ oboTerms = {}
    /\ oboPc = "idle"
    /\ oboTask = <<>>
    /\ oboThread = <<>>
    /\ oboWriters = {}
    /\ oboImportDepth = 0
    /\ oboGraph = [u \in ImportUris |-> {}]
    /\ oboStack = <<>>
    /\ oboFetched = {}

\* self.ont.metadata = self.extract_metadata(doc.header)
OboExtractMetadata ==
    /\ oboPc = "metadata"
    /\ oboMetadata' = oboDoc.header
    /\ oboPc' = "imports"
    /\ UNCHANGED <<oboN, oboDoc, oboImports, oboTerms, oboTask, oboThread, oboWriters>>
    /\ UNCHANGED oboImportVars
    /\ UNCHANGED notOboVars

\* process_imports(imports, depth, maxDepth): the imports it fetches; at
\* depth >= maxDepth none is fetched.
ProcessImports(imports, depth, maxDepth) ==
    IF depth >= maxDepth THEN {} ELSE imports

\* A call of process_imports: the import it resolves the imports of ("" for
\* the document parse_from was called for), the imports it has still to
\* fetch, and those it has resolved.
ImportCall(ref, pending) == [ref |-> ref, pending |-> pending, resolved |-> {}]

\* The call with a limit of one more than the ontology's.
OboCallProcessImportsDeeper ==
    /\ oboPc = "imports"
    /\ oboStack' = <<ImportCall("", ProcessImports(oboMetadata.imports, 0,
                                                   oboImportDepth + 1))>>
    /\ oboPc' = "resolving"
    /\ UNCHANGED <<oboN, oboDoc, oboMetadata, oboImports, oboTerms, oboTask,
                   oboThread, oboWriters, oboImportDepth, oboGraph, oboFetched>>
    /\ UNCHANGED notOboVars

\* self.process_imports(self.ont.metadata.imports, self.ont.import_depth,
\* ...): the document parse_from was called for is at depth 0.
OboCallProcessImports ==
    /\ oboPc = "imports"
    /\ oboStack' = <<ImportCall("", ProcessImports(oboMetadata.imports, 0,
                                                   oboImportDepth))>>
    /\ oboPc' = "resolving"
    /\ UNCHANGED <<oboN, oboDoc, oboMetadata, oboImports, oboTerms, oboTask,
                   oboThread, oboWriters, oboImportDepth, oboGraph, oboFetched>>
    /\ UNCHANGED notOboVars

\* The innermost call fetches one of its imports and runs the pipeline on
\* it, which resolves the imports that document declares one level deeper.
OboFetch ==
    /\ oboPc = "resolving"
    /\ LET n == Len(oboStack) IN
       \E ref \in oboStack[n].pending :
          /\ oboFetched' = oboFetched \cup {[uri |-> ref, depth |-> n - 1]}
          /\ oboStack' =
                Append([oboStack EXCEPT ![n].pending = @ \ {ref}],
                       ImportCall(ref, ProcessImports(oboGraph[ref], n, oboImportDepth)))
    /\ UNCHANGED <<oboN, oboDoc, oboMetadata, oboImports, oboTerms, oboPc, oboTask,
                   oboThread, oboWriters, oboImportDepth, oboGraph>>
    /\ UNCHANGED notOboVars

\* A fetch fails or times out: a warning, and the import is skipped.
OboFetchFails ==
    /\ oboPc = "resolving"
    /\ LET n == Len(oboStack) IN
       \E ref \in oboStack[n].pending :
          oboStack' = [oboStack EXCEPT ![n].pending = @ \ {ref}]
    /\ UNCHANGED <<oboN, oboDoc, oboMetadata, oboImports, oboTerms, oboPc, oboTask,
                   oboThread, oboWriters, oboImportDepth, oboGraph, oboFetched>>
    /\ UNCHANGED notOboVars

\* The pipeline of an imported document ends: the import is resolved.
OboImportDone ==
    /\ oboPc = "resolving"
    /\ Len(oboStack) > 1
    /\ LET n == Len(oboStack) IN
       /\ oboStack[n].pending = {}
       /\ oboStack' = [SubSeq(oboStack, 1, n - 1) EXCEPT
                          ![n - 1].resolved = @ \cup {oboStack[n].ref}]
    /\ UNCHANGED <<oboN, oboDoc, oboMetadata, oboImports, oboTerms, oboPc, oboTask,
                   oboThread, oboWriters, oboImportDepth, oboGraph, oboFetched>>
    /\ UNCHANGED notOboVars

\* self.ont.imports.update(...) with what process_imports returns.
OboProcessImports ==
    /\ oboPc = "resolving"
    /\ Len(oboStack) = 1
    /\ oboStack[1].pending = {}
    /\ oboImports' = oboImports \cup oboStack[1].resolved
    /\ oboStack' = <<>>
    /\ oboPc' = "pool"
    /\ UNCHANGED <<oboN, oboDoc, oboMetadata, oboTerms, oboTask, oboThread, oboWriters,
                   oboImportDepth, oboGraph, oboFetched>>
    /\ UNCHANGED notOboVars

\* The frames handed to the pool as the first step of parse_from.
OboPoolMapFirst ==
    /\ oboPc = "metadata"
    /\ oboTask' = [i \in 1..Len(oboDoc.frames) |-> "queued"]
    /\ oboPc' = "map"
    /\ UNCHANGED <<oboN, oboDoc, oboMetadata, oboImports, oboTerms, oboThread, oboWriters>>
    /\ UNCHANGED oboImportVars
    /\ UNCHANGED notOboVars

\* with ThreadPool(threads) as pool: pool.map(self.extract_entity, doc)
\* queues one task per frame.
OboPoolMap ==
    /\ oboPc = "pool"
    /\ oboTask' = [i \in 1..Len(oboDoc.frames) |-> "queued"]
    /\ oboPc' = "map"
    /\ UNCHANGED <<oboN, oboDoc, oboMetadata, oboImports, oboTerms, oboThread, oboWriters>>
    /\ UNCHANGED oboImportVars
    /\ UNCHANGED notOboVars

\* A pool thread takes the next task.
OboTake(t) ==
    /\ oboPc = "map"
    /\ oboThread[t] = 0
    /\ \E i \in 1..Len(oboTask) :
        /\ oboTask[i] = "queued"
        /\ \A j \in 1..(i - 1) : oboTask[j] # "queued"
        /\ oboTask' = [oboTask EXCEPT ![i] = "running"]
        /\ oboThread' = [oboThread EXCEPT ![t] = i]
    /\ UNCHANGED <<oboN, oboDoc, oboMetadata, oboImports, oboTerms, oboPc, oboWriters>>
    /\ UNCHANGED oboImportVars
    /\ UNCHANGED notOboVars

\* extract_entity(frame), run by the thread that holds the task: a malformed
\* frame raises SyntaxError, any other frame becomes an entity of the
\* ontology (parse_from drops what pool.map returns).
ExtractEntity(t, frame) ==
    IF frame.malformed
    THEN [raised |-> TRUE, terms |-> oboTerms, writers |-> oboWriters]
    ELSE [raised |-> FALSE,
          terms |-> {e \in oboTerms : e.id # frame.id}
                        \cup {[id |-> frame.id, name |-> frame.name]},
          writers |-> oboWriters \cup {t}]

OboRunTask(t) ==
    /\ oboPc = "map"
    /\ oboThread[t] # 0
    /\ LET i == oboThread[t]
           r == ExtractEntity(t, oboDoc.frames[i])
       IN  /\ oboTerms' = r.terms
           /\ oboWriters' = r.writers
           /\ oboTask' = [oboTask EXCEPT ![i] = IF r.raised THEN "failed" ELSE "done"]
    /\ oboThread' = [oboThread EXCEPT ![t] = 0]
    /\ UNCHANGED <<oboN, oboDoc, oboMetadata, oboImports, oboPc>>
    /\ UNCHANGED oboImportVars
    /\ UNCHANGED notOboVars

\* What parse_from does once pool.map has ended: after a SyntaxError it
\* raises a SyntaxError with the location; the except clause does nothing
\* else.
AfterMap(failed) ==
    [pc |-> IF failed THEN "raised" ELSE "done", terms |-> oboTerms]

\* pool.map ends when every task has ended.
OboMapEnds ==
    /\ oboPc = "map"
    /\ \A i \in 1..Len(oboTask) : oboTask[i] \in {"done", "failed"}
    /\ LET r == AfterMap(\E i \in 1..Len(oboTask) : oboTask[i] = "failed")
       IN  oboPc' = r.pc /\ oboTerms' = r.terms
    /\ UNCHANGED <<oboN, oboDoc, oboMetadata, oboImports, oboTask, oboThread, oboWriters>>
    /\ UNCHANGED oboImportVars
    /\ UNCHANGED notOboVars

OboNext ==
    \/ OboExtractMetadata
    \/ OboCallProcessImports
    \/ OboFetch
    \/ OboFetchFails
    \/ OboImportDone
    \/ OboProcessImports
    \/ OboPoolMap
    \/ \E t \in 1..oboN : OboTake(t)
    \/ \E t \in 1..oboN : OboRunTask(t)
    \/ OboMapEnds

(***************************************************************************)
(* explicit_namespace on an arbitrary attribute name.  Here the keys of    *)
(* the namespace map are strings of characters, as the attribute is.       *)
(* ExplicitNamespace above is this function on the names the ingestor      *)
(* uses, whose prefix and local part are known.                            *)
(***************************************************************************)
\* s.rsplit(sep, 1)
RECURSIVE SplitOnceLast(_, _)
SplitOnceLast(s, sep) ==
    IF s = <<>> THEN << <<>> >>
    ELSE IF s[Len(s)] = sep THEN << SubSeq(s, 1, Len(s) - 1), <<>> >>
    ELSE LET r == SplitOnceLast(SubSeq(s, 1, Len(s) - 1), sep)
         IN  [r EXCEPT ![Len(r)] = @ \o <<s[Len(s)]>>]

\* s.split(sep, 1): the list of one or two parts.
RECURSIVE SplitOnce(_, _)
SplitOnce(s, sep) ==
    IF s = <<>> THEN << <<>> >>
    ELSE IF Head(s) = sep THEN << <<>>, Tail(s) >>
    ELSE LET r == SplitOnce(Tail(s), sep)
         IN  [r EXCEPT ![1] = <<Head(s)>> \o @]

\* prefix in nsmap
HasKey(nsmap, prefix) == \E i \in 1..Len(nsmap) : nsmap[i].prefix = prefix

\* prefix, term = attr.split(':', 1) raises ValueError when attr has no ':',
\* nsmap[prefix] raises KeyError when the prefix is not bound.
explicit_namespace(attr, nsmap) ==
    LET parts == SplitOnce(attr, ":") IN
    IF Len(parts) # 2 THEN [err |-> "ValueError", val |-> NoneStr]
    ELSE IF ~HasKey(nsmap, parts[1]) THEN [err |-> "KeyError", val |-> NoneStr]
    ELSE [err |-> "ok",
          val |-> <<"{">> \o NsGet(nsmap, parts[1]) \o <<"}">> \o parts[2]]

NsKeys == << <<"a">>, <<"_">> >>
NsUris == {OboUri, RdfUri}

\* The dicts that bind some of NsKeys.
NsDicts ==
    { SelectSeq([i \in 1..Len(NsKeys) |-> [prefix |-> NsKeys[i], uri |-> f[i]]],
                LAMBDA b : b.uri # NoneStr) :
        f \in [1..Len(NsKeys) -> NsUris \cup {NoneStr}] }

NsNoResult == [err |-> "", val |-> NoneStr]

NsInit ==
    /\ nsAttr \in StrUpTo(MaxLen)
    /\ nsMap \in NsDicts
    /\ nsOut = NsNoResult
    /\ nsPc = "call"

NsIdle ==
    /\ nsAttr = <<>>
    /\ nsMap = <<>>
    /\ nsOut = NsNoResult
    /\ nsPc = "idle"

NsExpand ==
    /\ nsPc = "call"
    /\ nsOut' = explicit_namespace(nsAttr, nsMap)
    /\ nsPc' = "returned"
    /\ UNCHANGED <<nsAttr, nsMap>>
    /\ UNCHANGED notNsVars

NsNext == NsExpand

(***************************************************************************)
(* Specification SpecComment: parse_comment run line by line on a comment. *)
(***************************************************************************)
CommentLines ==
    { Chars("def: foo"), Chars("def: a def: b"), Chars("altdef: bar"),
      Chars(" altdef: bar2 "), Chars("tempdef: baz"), Chars("free text"),
      Chars("Functional form: f"), <<>> }


Comments ==
    {NoComment} \cup
    { [none |-> FALSE, lines |-> l] :
        l \in UNION {[1..k -> CommentLines] : k \in 1..MaxLines} }

CmtInit ==
    /\ cmtComment \in Comments
    /\ cmtIndex = 1
    /\ cmtParsed = Parsed0
    /\ cmtPc = "call"
    /\ cmtDefScanned = NoneStr
    /\ cmtEntries = <<>>

CmtIdle ==
    /\ cmtComment = NoComment
    /\ cmtIndex = 1
    /\ cmtParsed = Parsed0
    /\ cmtPc = "idle"
    /\ cmtDefScanned = NoneStr
    /\ cmtEntries = <<>>

\* if comment is None: return dict()
CmtCall ==
    /\ cmtPc = "call"
    /\ cmtPc' = IF cmtComment.none THEN "returned" ELSE "scan"
    /\ UNCHANGED <<cmtComment, cmtIndex, cmtParsed, cmtDefScanned, cmtEntries>>
    /\ UNCHANGED notCmtVars

\* One iteration of for (index, line) in enumerate(commentlines); the loop
\* ends by break or after the last line.
CmtScanLine ==
    /\ cmtPc = "scan"
    /\ LET r == ScanLine(cmtParsed, cmtComment.lines, cmtIndex)
           line == Strip(cmtComment.lines[cmtIndex])
           isFf == StartsWith(line, Chars("Functional form:"))
           isDef == ~isFf /\ StartsWith(line, Chars("def:"))
           isKv == ~isFf /\ ~isDef /\ Contains(line, Chars(": "))
           parts == SplitOnceOn(line, Chars(": "))
       IN  /\ cmtParsed' = r.parsed
           /\ cmtPc' = IF r.brk \/ cmtIndex = Len(cmtComment.lines)
                       THEN "post" ELSE "scan"
           /\ cmtDefScanned' = IF isDef THEN line ELSE cmtDefScanned
           /\ cmtEntries' = IF isKv
                             THEN Append(cmtEntries, [key |-> Strip(parts[1]),
                                                      val |-> Strip(parts[2])])
                             ELSE cmtEntries
    /\ cmtIndex' = cmtIndex + 1
    /\ UNCHANGED cmtComment
    /\ UNCHANGED notCmtVars

\* The post-pass and return parsed.
CmtPostPass ==
    /\ cmtPc = "post"
    /\ cmtParsed' = PostPass(cmtParsed)
    /\ cmtPc' = "returned"
    /\ UNCHANGED <<cmtComment, cmtIndex, cmtDefScanned, cmtEntries>>
    /\ UNCHANGED notCmtVars

CmtNext == CmtCall \/ CmtScanLine \/ CmtPostPass

(***************************************************************************)
(* Specification SpecClassify: _OwlXMLClassifier._classify run on one      *)
(* element, one descendant at a time.  term.iter() yields the element      *)
(* itself first; its tag is owl:Class, which no rule's hook accepts.       *)
(***************************************************************************)
ClsComments ==
    { [none |-> FALSE, lines |-> <<Chars("def: foo"), Chars("altdef: bar")>>],
      [none |-> FALSE, lines |-> <<Chars("def: foo2"), Chars("altdef: bar2")>>],
      [none |-> FALSE, lines |-> <<Chars("def: foo"), Chars("tempdef: baz")>>],
      [none |-> FALSE, lines |-> <<Chars("free text")>>] }

ClsChildren ==
    { Label(<<"n1">>), Label(<<"n2">>),
      SubClassOf(IdA), SubClassOf(IdB), SubClassOf(NoneStr),
      Child(ExplicitNamespace("rdfs", "subClassOf", WorkerNs), <<>>, <<>>, IdB),
      Child(ExplicitNamespace("rdfs", "subClassOf", WorkerNs), <<>>, <<>>, NoneStr) }
    \cup { Comment(k) : k \in ClsComments }

ClsElements ==
    { Element(ClassTag, about, NoneStr, FALSE, children, TRUE) :
        about \in {IdA, NoneStr},
        children \in UNION {[1..k -> ClsChildren] : k \in 0..MaxChildren} }

ClsInit ==
    /\ clsTerm \in ClsElements
    /\ clsTid = NoneStr
    /\ clsIndex = 1
    /\ clsDict = TermDict0
    /\ clsPc = "call"

ClsIdle ==
    /\ clsTerm = NoElement
    /\ clsTid = NoneStr
    /\ clsIndex = 1
    /\ clsDict = TermDict0
    /\ clsPc = "idle"

\* if not term.attrib: return {}; tid = self.accession(term.get(rdf:about))
ClsCall ==
    /\ clsPc = "call"
    /\ IF ~HasAttrib(clsTerm)
       THEN clsPc' = "returned" /\ clsTid' = clsTid
       ELSE IF FormatAccessionRaises(clsTerm.about)
       THEN clsPc' = "raised" /\ clsTid' = clsTid
       ELSE clsPc' = "scan" /\ clsTid' = FormatAccession(clsTerm.about, WorkerNs)
    /\ UNCHANGED <<clsTerm, clsIndex, clsDict>>
    /\ UNCHANGED notClsVars

\* One iteration of for child in term.iter().
ClsScanChild ==
    /\ clsPc = "scan"
    /\ clsIndex <= Len(clsTerm.children)
    /\ LET c == clsTerm.children[clsIndex] IN
       IF ChildRaises(c)
       THEN clsPc' = "raised" /\ clsDict' = clsDict
       ELSE clsPc' = clsPc /\ clsDict' = ApplyRules(clsDict, c)
    /\ clsIndex' = clsIndex + 1
    /\ UNCHANGED <<clsTerm, clsTid>>
    /\ UNCHANGED notClsVars

\* return (tid, term_dict)
ClsReturn ==
    /\ clsPc = "scan"
    /\ clsIndex > Len(clsTerm.children)
    /\ clsPc' = "returned"
    /\ UNCHANGED <<clsTerm, clsTid, clsIndex, clsDict>>
    /\ UNCHANGED notClsVars

ClsNext == ClsCall \/ ClsScanChild \/ ClsReturn

(***************************************************************************)
(* The specifications.                                                     *)
(***************************************************************************)
InitAcc == AccInit /\ EntIdle /\ OwlIdle /\ OboIdle /\ NsIdle /\ CmtIdle /\ ClsIdle
SpecAcc == InitAcc /\ [][AccNext]_vars

InitEntity == EntInit /\ AccIdle /\ OwlIdle /\ OboIdle /\ NsIdle /\ CmtIdle /\ ClsIdle
SpecEntity == InitEntity /\ [][EntNext]_vars

InitOwl == OwlInit /\ AccIdle /\ EntIdle /\ OboIdle /\ NsIdle /\ CmtIdle /\ ClsIdle
SpecOwl == InitOwl /\ [][OwlNext]_vars
\* The thread that calls read and makeTree is scheduled as long as it can
\* take a step, and so is each classifier process.
OwlMain ==
    \/ OwlReadNs \/ OwlReadElement \/ OwlReadDone
    \/ OwlTestTerms \/ OwlTestRaw \/ OwlMerge \/ OwlShutWorkers
OwlProcess(w) == w \in Workers /\ (OwlWorkerGet(w) \/ OwlWorkerClassify(w))
SpecOwlFair ==
    /\ InitOwl /\ [][OwlNext]_vars
    /\ WF_vars(OwlMain)
    /\ \A w \in 1..MaxWorkers : WF_vars(OwlProcess(w))

InitObo == OboInit /\ AccIdle /\ EntIdle /\ OwlIdle /\ NsIdle /\ CmtIdle /\ ClsIdle
SpecObo == InitObo /\ [][OboNext]_vars

\* parse_from runs on one thread, which is scheduled as long as it can take
\* a step, and so are the threads of the pool.
SpecOboFair == InitObo /\ [][OboNext]_vars /\ WF_vars(OboNext)

InitNs == NsInit /\ AccIdle /\ EntIdle /\ OwlIdle /\ OboIdle /\ CmtIdle /\ ClsIdle
SpecNs == InitNs /\ [][NsNext]_vars

InitComment == CmtInit /\ AccIdle /\ EntIdle /\ OwlIdle /\ OboIdle /\ NsIdle /\ ClsIdle
SpecComment == InitComment /\ [][CmtNext]_vars
InitClassify ==
    ClsInit /\ AccIdle /\ EntIdle /\ OwlIdle /\ OboIdle /\ NsIdle /\ CmtIdle
SpecClassify == InitClassify /\ [][ClsNext]_vars

(***************************************************************************)
(* Claims about the Entity view (checked under SpecEntity).  A discard     *)
(* resets entLast, so while entLast records an access, entDataAlive and    *)
(* entOntAlive are what they were when the access was made.                *)
(***************************************************************************)
LastSet(field) == entLast.op = "set" /\ entLast.field = field
LastGet(field) == entLast.op = "get" /\ entLast.field = field

(***************************************************************************)
(* C5: the id of an entity is immutable: the record keeps the id it was    *)
(* created with whatever is assigned through the view, a read of id        *)
(* returns it, and every assignment to id raises and changes no field.     *)
(***************************************************************************)
C5_IdImmutable ==
    /\ entData.id = EntId0
    /\ (LastGet("id") /\ entLast.err = "ok") => entLast.val = EntId0
    /\ LastSet("id") => (entLast.err = "RuntimeError" /\ ~entLast.changed)

\* id is read back after other fields have been assigned.
C5_Witness ==
    /\ LastGet("id") /\ entLast.err = "ok"
    /\ entData.name = PyStr("s1")
    /\ entData.alternate_ids # {}
    /\ entData.subsets # {}

Undeclared(v) == \E x \in v.elems : x \notin entSubsetdefs
AllStr(v) == \A x \in v.elems : AtomKind(x) = "str"

(***************************************************************************)
(* C6: on a live entity of a live ontology, assigning to subsets a set     *)
(* with an id that is not declared in metadata.subsetdefs fails (with      *)
(* ValueError when the set holds only str) and leaves the stored subsets   *)
(* as they were; assigning a set of declared ids succeeds and stores       *)
(* exactly that set, and a read of subsets returns the last set assigned.  *)
(***************************************************************************)
C6_SubsetsValidated ==
    /\ (LastSet("subsets") /\ IsSet(entLast.val) /\ entOntAlive /\ entDataAlive) =>
          /\ Undeclared(entLast.val) =>
                /\ entLast.err \in {"ValueError", "TypeError"}
                /\ AllStr(entLast.val) => entLast.err = "ValueError"
                /\ ~entLast.changed
                /\ entData.subsets = entAssigned["subsets"]
          /\ ~Undeclared(entLast.val) =>
                /\ entLast.err = "ok"
                /\ entData.subsets = entLast.val.elems
    /\ (LastGet("subsets") /\ entLast.err = "ok") =>
          entLast.val = PySet(entAssigned["subsets"])

\* A set with one declared and one undeclared id is refused while a
\* declared subset is stored.
C6_Witness ==
    /\ LastSet("subsets")
    /\ entLast.val = PySet({"s1", "s2"})
    /\ entLast.err = "ValueError"
    /\ entData.subsets = {"s1"}

RightKind(field) ==
    CASE field \in {"alternate_ids", "subsets"} -> "str"
      [] field = "synonyms" -> "Synonym"
      [] field = "xrefs" -> "Xref"

(***************************************************************************)
(* C7: for alternate_ids, subsets, synonyms and xrefs, assigning a set     *)
(* with an element of the wrong kind is rejected with a type error and     *)
(* leaves the stored field unchanged.                                      *)
(***************************************************************************)
C7_WrongKindRejected ==
    \A f \in SetFields :
        (/\ LastSet(f)
         /\ IsSet(entLast.val)
         /\ \E x \in entLast.val.elems : AtomKind(x) # RightKind(f))
        => (entLast.err = "TypeError" /\ ~entLast.changed)

(***************************************************************************)
(* C8: while the Ontology or the EntityData of a view is gone, every       *)
(* access through the view fails with an error and writes nothing.         *)
(***************************************************************************)
C8_StaleAccessFails ==
    (/\ ~entOntAlive \/ ~entDataAlive
     /\ entLast.op \in {"get", "set"})
    => (entLast.err # "ok" /\ ~entLast.changed)

(***************************************************************************)
(* Claims about the OWL-XML ingestor (checked under SpecOwl).              *)
(***************************************************************************)
\* Worker w holds an element that classifies and has not emitted its result.
Holding(w) == owlWorker[w].pc = "classify" /\ RunOutcome(owlWorker[w].term) = "emit"

(***************************************************************************)
(* C1: the merge loop never declares the document complete while a worker  *)
(* holds an element it took from the raw queue and has not emitted, and    *)
(* every result a worker has emitted is stored in the term table before    *)
(* makeTree returns.                                                       *)
(***************************************************************************)
C1_AllClassifiedMerged ==
    /\ owlPc \in {"shut", "done"} => \A w \in Workers : ~Holding(w)
    /\ owlPc = "done" => owlEmitted \subseteq owlMerged

\* The queued element q has left the raw queue and the worker that took it
\* has finished with it.
Classified(q) ==
    /\ \A i \in 1..Len(owlRaw) : owlRaw[i] # q
    /\ \A w \in Workers : owlWorker[w].term # q

(***************************************************************************)
(* C12: identifier normalisation is total on what the ingestor hands it:   *)
(* format_accession never raises, so no worker is ended by an exception of *)
(* it, and every queued element that parses, also one with attributes but  *)
(* no rdf:about, has yielded an (id, field-map) result once a worker has   *)
(* classified it.                                                          *)
(***************************************************************************)
C12_NormalizationTotal ==
    /\ \A w \in Workers : owlWorker[w].pc # "died"
    /\ \A q \in owlQueued :
          (q.elem.parses /\ Classified(q)) => \E r \in owlEmitted : r.idx = q.idx

\* The term table one worker yields that classifies the queued elements in
\* document order, each result merged as it is emitted.
RECURSIVE InOrderTerms(_, _, _)
InOrderTerms(terms, queued, ns) ==
    IF queued = {} THEN terms
    ELSE LET q == CHOOSE x \in queued : \A y \in queued : x.idx >= y.idx
         IN  InOrderTerms(StoreTerm(terms, Classify(q.elem), ns), queued \ {q}, ns)

(***************************************************************************)
(* C2: the final term table is the same for every worker count and every   *)
(* order in which workers complete and results are consumed: for a         *)
(* document whose queued elements all classify, the table makeTree leaves  *)
(* is the one the in-order run of a single worker leaves.                  *)
(***************************************************************************)
C2_SameTableForEverySchedule ==
    (/\ owlPc = "done"
     /\ \A q \in owlQueued : RunOutcome(q) = "emit")
    => owlTerms = InOrderTerms(<<>>, owlQueued, owlNs)

\* The in-order table is one makeTree does produce: all of two queued
\* elements merged.
OwlInOrderReached ==
    /\ owlPc = "done"
    /\ Cardinality(owlQueued) = 2
    /\ owlMerged = owlEmitted
    /\ Cardinality(owlMerged) = 2
    /\ owlTerms = InOrderTerms(<<>>, owlQueued, owlNs)

\* The record of id t keeps what it has when the merge step stores a result:
\* a name that is set stays, and every target of its is_a list is in the
\* list afterwards.
RecordKept(t) ==
    /\ t \in DOMAIN owlTerms'
    /\ owlTerms[t].name # <<>> => owlTerms'[t].name = owlTerms[t].name
    /\ \A i \in 1..Len(owlTerms[t].is_a) :
          \E j \in 1..Len(owlTerms'[t].is_a) : owlTerms'[t].is_a[j] = owlTerms[t].is_a[i]

(***************************************************************************)
(* C16: when a result arrives at the merge step for an id that is in the   *)
(* term table, the record's scalar fields that are set keep their value    *)
(* and its is_a list holds the targets of the existing and of the incoming *)
(* record (so that the edges do not depend on which arrives first).        *)
(***************************************************************************)
C16_MergeKeepsAndUnions ==
    [][\A t \in DOMAIN owlTerms :
          /\ RecordKept(t)
          /\ (/\ owlPc = "get" /\ owlResults # <<>> /\ Head(owlResults) # Poison
              /\ FormatAccession(Head(owlResults).tid, owlNs) = t)
             => \A i \in 1..Len(Head(owlResults).d.is_a) :
                   \E j \in 1..Len(owlTerms'[t].is_a) :
                       owlTerms'[t].is_a[j] =
                           FormatAccession(Head(owlResults).d.is_a[i], owlNs)]_vars

\* Classifying the queued element fails: the bytes do not parse, or
\* _classify raises.
Fails(q) == RunOutcome(q) \in {"poison", "died"}

\* Every worker has left its loop.
AllWorkersEnded == \A w \in Workers : owlWorker[w].pc \in {"exited", "died"}

(***************************************************************************)
(* C18: a failure while classifying one queued element is confined to that *)
(* element: when makeTree has returned and every worker has ended, with no *)
(* emitted result left unmerged, every queued element other than the       *)
(* failing ones has been classified and its result is in the term table.   *)
(***************************************************************************)
C18_FailureConfined ==
    (/\ owlPc = "done"
     /\ AllWorkersEnded
     /\ owlEmitted \subseteq owlMerged
     /\ \E q \in owlQueued : Fails(q))
    => \A q \in owlQueued :
          ~Fails(q) => \E r \in owlMerged : r.idx = q.idx

(***************************************************************************)
(* C19: when the merge loop has been ended by the poison pair, no result   *)
(* that a worker has put on the result queue, before or after the poison   *)
(* pair, is discarded: every emitted result is stored in the term table    *)
(* when makeTree has returned.                                             *)
(***************************************************************************)
C19_PoisonDiscardsNothing ==
    (owlPc = "done" /\ owlPoison = "read") => owlEmitted \subseteq owlMerged

(***************************************************************************)
(* Claims about the OBO-JSON ingestor (checked under SpecObo).             *)
(***************************************************************************)

(***************************************************************************)
(* C3: no worker ever writes to the ontology's entity table: every write   *)
(* is made by the thread that called parse_from.                           *)
(***************************************************************************)
C3_OnlyMainThreadWrites == oboWriters \subseteq {MainThread}

(***************************************************************************)
(* C4: ingestion of a document is all-or-nothing: when a SyntaxError       *)
(* reaches the caller of parse_from, the ontology holds no entity made     *)
(* from a frame of the document.                                           *)
(***************************************************************************)
C4_AllOrNothing ==
    oboPc = "raised" =>
        ~\E e \in oboTerms : \E i \in 1..Len(oboDoc.frames) : oboDoc.frames[i].id = e.id

C20_FramesAfterHeaderAndImports ==
    (\E i \in 1..Len(oboTask) : oboTask[i] # "new") =>
        /\ oboMetadata = oboDoc.header
        /\ oboPc \notin {"metadata", "imports", "resolving"}
        /\ oboStack = <<>>
        /\ \A f \in oboFetched : f.depth = 0 => f.uri \in oboImports

\* A frame is being classified after an import was resolved.
C20_Witness ==
    /\ \E i \in 1..Len(oboTask) : oboTask[i] = "running"
    /\ oboMetadata.subsetdefs = {"s1"}
    /\ oboMetadata.imports = {"imp.json"}
    /\ oboImports = {"imp.json"}

(***************************************************************************)
(* Claims about format_accession (checked under SpecAcc).                  *)
(***************************************************************************)

(***************************************************************************)
(* C9 (as stated): format_accession is idempotent for every raw accession  *)
(* and every namespace map.                                                *)
(***************************************************************************)
C9_IdempotentEverywhere == accPc = "twice" => accOut2 = accOut

BoundUriIn(s, nsmap) ==
    nsmap # NoNsmap /\ \E i \in 1..Len(nsmap) : Contains(s, nsmap[i].uri)

(***************************************************************************)
(* C9 (amended): format_accession is idempotent on every raw accession     *)
(* whose normalised form contains no namespace URI bound in the map.       *)
(***************************************************************************)
C9_IdempotentOnLegalForms ==
    (accPc = "twice" /\ ~BoundUriIn(accOut, accNs)) => accOut2 = accOut

\* A stripped URI and a replaced underscore, normalised twice.
C9_Witness ==
    /\ accPc = "twice"
    /\ ~BoundUriIn(accOut, accNs)
    /\ BoundUriIn(accRaw, accNs)
    /\ Contains(accRaw, <<"_">>)
    /\ accOut # accRaw

(***************************************************************************)
(* C10: for a raw accession that contains no bound namespace URI, contains *)
(* '_' and does not start with '_', the result is the input with only its  *)
(* first '_' replaced by ':'.                                              *)
(***************************************************************************)
C10_FirstUnderscoreOnly ==
    (/\ accPc \in {"once", "twice"}
     /\ ~BoundUriIn(accRaw, accNs)
     /\ Contains(accRaw, <<"_">>)
     /\ ~StartsWith(accRaw, <<"_">>))
    => accOut = StrReplaceFirst(accRaw, <<"_">>, <<":">>)

(***************************************************************************)
(* C11 (as stated): for every raw accession that starts with '_' and every *)
(* namespace map, format_accession returns the input unchanged.            *)
(***************************************************************************)
C11_BlankNodeUnchangedEverywhere ==
    (accPc \in {"once", "twice"} /\ StartsWith(accRaw, <<"_">>)) => accOut = accRaw

(***************************************************************************)
(* C11 (amended): for every raw accession that starts with '_' and every   *)
(* namespace map none of whose URIs occurs in it (and for no map at all),  *)
(* format_accession returns the input unchanged.                           *)
(***************************************************************************)
C11_BlankNodeUnchanged ==
    (/\ accPc \in {"once", "twice"}
     /\ StartsWith(accRaw, <<"_">>)
     /\ ~BoundUriIn(accRaw, accNs))
    => accOut = accRaw

\* A blank-node id with a second underscore, normalised with a map that
\* binds a URI.
C11_Witness ==
    /\ accPc = "once"
    /\ accRaw = <<"_", ":", "_">>
    /\ accNs # NoNsmap /\ Len(accNs) > 0
    /\ accOut = accRaw

(***************************************************************************)
(* Claims about explicit_namespace (checked under SpecNs).                 *)
(***************************************************************************)
ColonAt(attr) == {i \in 1..Len(attr) : attr[i] = ":"}
FirstColon(attr) == CHOOSE i \in ColonAt(attr) : \A j \in ColonAt(attr) : i <= j
PrefixOf(attr) == SubSeq(attr, 1, FirstColon(attr) - 1)
LocalOf(attr) == SubSeq(attr, FirstColon(attr) + 1, Len(attr))
Bound(nsmap, prefix) == {i \in 1..Len(nsmap) : nsmap[i].prefix = prefix}

(***************************************************************************)
(* C13: explicit_namespace("prefix:local", nsmap) splits at the first ':'  *)
(* only; when the prefix is bound it returns "{" + nsmap[prefix] + "}" +   *)
(* local, the local part kept whole also when it contains ':'; when the    *)
(* prefix is not bound it fails with an error and returns no value.        *)
(***************************************************************************)
C13_ExpandOrFail ==
    (nsPc = "returned" /\ ColonAt(nsAttr) # {}) =>
        IF Bound(nsMap, PrefixOf(nsAttr)) # {}
        THEN /\ nsOut.err = "ok"
             /\ \A i \in Bound(nsMap, PrefixOf(nsAttr)) :
                   nsOut.val = <<"{">> \o nsMap[i].uri \o <<"}">> \o LocalOf(nsAttr)
        ELSE nsOut.err \notin {"", "ok"} /\ nsOut.val = NoneStr

\* A bound prefix and a local part that contains ':'.
C13_Witness ==
    /\ nsPc = "returned"
    /\ nsAttr = <<"a", ":", ":">>
    /\ nsOut = [err |-> "ok", val |-> <<"{">> \o OboUri \o <<"}", ":">>]

\* A prefix that the map does not bind.
C13_WitnessUnbound ==
    /\ nsPc = "returned"
    /\ nsAttr = <<"_", ":", "a">>
    /\ Len(nsMap) = 1
    /\ nsOut.err = "KeyError"

(***************************************************************************)
(* Claims about parse_comment (checked under SpecComment).                 *)
(***************************************************************************)
\* The texts that follow a def: marker on the line, trimmed.
DefTexts(line) ==
    { Strip(SubSeq(line, j + 4, Len(line))) :
        j \in {k \in 1..(Len(line) - 3) : SubSeq(line, k, k + 3) = Chars("def:")} }

\* The values the scan has collected for the key, in the order of the lines.
Collected(key) ==
    LET hits == SelectSeq(cmtEntries, LAMBDA e : e.key = key)
    IN  [i \in 1..Len(hits) |-> hits[i].val]

DefKeys == {Chars("tempdef"), Chars("altdef")}

(***************************************************************************)
(* C14: whenever a def: line has been scanned, desc is a str, the text of  *)
(* the last def: line scanned, whatever lines precede or follow it, and    *)
(* when parse_comment returns it has not been replaced by a tempdef or     *)
(* altdef entry: every tempdef and altdef entry collected is in other.     *)
(***************************************************************************)
C14_DefWins ==
    cmtDefScanned # NoneStr =>
        /\ cmtParsed.has_desc
        /\ cmtParsed.desc.type = "str"
        /\ cmtParsed.desc.text \in DefTexts(cmtDefScanned)
        /\ cmtPc = "returned" =>
              \A k \in DefKeys :
                  Collected(k) # <<>> =>
                      /\ DictHas(cmtParsed.other, k)
                      /\ DictGet(cmtParsed.other, k) = CList(Collected(k))

\* altdef, def and tempdef lines in this order.
C14_Witness ==
    /\ cmtPc = "returned"
    /\ cmtComment.lines = <<Chars("altdef: bar"), Chars("def: foo"), Chars("tempdef: baz")>>
    /\ cmtParsed.desc = CStr(Chars("foo"))
    /\ DictHas(cmtParsed.other, Chars("altdef"))
    /\ DictHas(cmtParsed.other, Chars("tempdef"))

(***************************************************************************)
(* C15: for a comment whose only line is an altdef entry (no def: line,    *)
(* no free-text line), desc is the string of the altdef text, the kind of  *)
(* value a def: line produces, and other no longer has the key altdef.     *)
(***************************************************************************)
C15_AltdefBecomesDesc ==
    (/\ cmtPc = "returned"
     /\ ~cmtComment.none
     /\ Len(cmtComment.lines) = 1
     /\ StartsWith(Strip(cmtComment.lines[1]), Chars("altdef: ")))
    => /\ cmtParsed.has_desc
       /\ cmtParsed.desc =
             CStr(Strip(SubSeq(Strip(cmtComment.lines[1]), 9,
                               Len(Strip(cmtComment.lines[1])))))
       /\ ~DictHas(cmtParsed.other, Chars("altdef"))
(***************************************************************************)
(* Claims about _classify (checked under SpecClassify).                    *)
(***************************************************************************)
\* The text of the last rdfs:label among the descendants, '' without one.
LastLabel(children) ==
    LET labels == { i \in 1..Len(children) :
                      children[i].tag = Qualified(RdfsUri, "label") }
    IN  IF labels = {} THEN <<>>
        ELSE children[CHOOSE i \in labels : \A j \in labels : j <= i].text

\* The normalized rdf:resource of the rdfs:subClassOf descendants that
\* carry one, in document order.
RECURSIVE ResourceTargets(_)
ResourceTargets(children) ==
    IF children = <<>> THEN <<>>
    ELSE LET c == Head(children)
         IN  (IF c.tag = Qualified(RdfsUri, "subClassOf") /\ c.resource # NoneStr
              THEN <<FormatAccession(c.resource, WorkerNs)>> ELSE <<>>)
             \o ResourceTargets(Tail(children))

(***************************************************************************)
(* C21: classifying a queued Class element does not fail and returns       *)
(* name = the text of the last rdfs:label among its descendants and        *)
(* is_a = the normalized rdf:resource of exactly its rdfs:subClassOf       *)
(* descendants that carry rdf:resource, in document order, duplicates      *)
(* kept.                                                                   *)
(***************************************************************************)
C21_NameAndEdges ==
    HasAttrib(clsTerm) =>
        /\ clsPc # "raised"
        /\ clsPc = "returned" =>
              /\ clsDict.name = LastLabel(clsTerm.children)
              /\ clsDict.is_a = ResourceTargets(clsTerm.children)

\* No descendant carries an empty rdf:resource.
TargetsNonEmpty ==
    \A i \in 1..Len(clsTerm.children) : clsTerm.children[i].resource # <<>>

\* C21 for the elements none of whose descendants has an empty rdf:resource.
C21_NameAndEdgesOfTargets == TargetsNonEmpty => C21_NameAndEdges

\* A returned classification with two labels and a repeated edge.
C21_Reached ==
    /\ clsPc = "returned"
    /\ clsTerm.children = <<SubClassOf(IdA), Label(<<"n2">>), SubClassOf(IdA)>>

\* The items collected under key in the dict other, none when it is missing.
ItemsOf(other, key) ==
    IF DictHas(other, key) THEN DictGet(other, key).items ELSE <<>>

(***************************************************************************)
(* C22: the metadata of each further rdfs:comment is merged into what the  *)
(* earlier ones gave: its desc replaces the earlier desc, the values of    *)
(* each of its keys of other are appended to those already collected, and  *)
(* the keys of other that only earlier comments had are kept.              *)
(***************************************************************************)
C22_CommentsMerged ==
    [][ (/\ clsPc = "scan" /\ clsPc' = "scan" /\ clsIndex' = clsIndex + 1
         /\ clsTerm.children[clsIndex].tag = Qualified(RdfsUri, "comment"))
        => LET p == ParseComment(clsTerm.children[clsIndex].comment)
               keys == { clsDict.other[i].key : i \in 1..Len(clsDict.other) }
                         \cup { p.other[i].key : i \in 1..Len(p.other) }
           IN  /\ p.has_desc => clsDict'.desc = p.desc
               /\ \A k \in keys :
                     /\ DictHas(clsDict'.other, k)
                     /\ ItemsOf(clsDict'.other, k)
                          = ItemsOf(clsDict.other, k) \o ItemsOf(p.other, k) ]_vars

(***************************************************************************)
(* Claims about parse_comment's post-pass (checked under SpecComment).     *)
(***************************************************************************)
\* The line scan has left key in other.
Scanned(key) == cmtParsed.has_other /\ DictHas(cmtParsed.other, key)

(***************************************************************************)
(* C23: the post-pass leaves parsed alone when desc is set; when desc is   *)
(* unset it takes desc from tempdef if only tempdef is in other, from      *)
(* altdef if only altdef is, from altdef if both are, and removes from     *)
(* other the key it took, and no key but tempdef and altdef; the keys it   *)
(* keeps keep their values.                                                *)
(***************************************************************************)
C23_PostPass ==
    [][ (cmtPc = "post" /\ cmtPc' = "returned")
        => LET o == cmtParsed.other
               tempdef == Chars("tempdef")
               altdef == Chars("altdef")
           IN  /\ cmtParsed.has_desc => cmtParsed' = cmtParsed
               /\ (~cmtParsed.has_desc /\ Scanned(tempdef) /\ ~Scanned(altdef))
                     => /\ cmtParsed'.has_desc
                        /\ cmtParsed'.desc = DictGet(o, tempdef)
                        /\ cmtParsed'.other = DictDel(o, tempdef)
               /\ (~cmtParsed.has_desc /\ Scanned(altdef) /\ ~Scanned(tempdef))
                     => /\ cmtParsed'.has_desc
                        /\ cmtParsed'.desc = DictGet(o, altdef)
                        /\ cmtParsed'.other = DictDel(o, altdef)
               /\ (~cmtParsed.has_desc /\ Scanned(altdef) /\ Scanned(tempdef))
                     => /\ cmtParsed'.has_desc
                        /\ cmtParsed'.desc = DictGet(o, altdef)
               /\ \A i \in 1..Len(o) :
                     IF DictHas(cmtParsed'.other, o[i].key)
                     THEN DictGet(cmtParsed'.other, o[i].key) = o[i].val
                     ELSE /\ o[i].key \in {tempdef, altdef}
                          /\ ~cmtParsed.has_desc ]_vars

\* parse_comment has returned for a comment that gives both keys and no desc.
C23_Witness ==
    /\ cmtPc = "returned"
    /\ cmtComment.lines = <<Chars("tempdef: baz"), Chars("altdef: bar")>>
    /\ cmtParsed.has_desc
    /\ cmtParsed.desc = CList(<<Chars("bar")>>)
    /\ cmtParsed.other = <<>>

(***************************************************************************)
(* C24: scanning a line that starts with def: sets desc to the whole,      *)
(* trimmed remainder of the line after that prefix and does not end the    *)
(* scan; once desc is set, a key: value line is still collected into       *)
(* other and a free-text line leaves desc as it is.                        *)
(***************************************************************************)
C24_DefTakesRemainder ==
    [][ (cmtPc = "scan" /\ cmtIndex' = cmtIndex + 1)
        => LET line == Strip(cmtComment.lines[cmtIndex])
               isFf == StartsWith(line, Chars("Functional form:"))
               isDef == StartsWith(line, Chars("def:"))
               isKv == ~isFf /\ ~isDef /\ Contains(line, Chars(": "))
               parts == SplitOnceOn(line, Chars(": "))
           IN  /\ isDef =>
                     /\ cmtParsed'.has_desc
                     /\ cmtParsed'.desc = CStr(Strip(SubSeq(line, 5, Len(line))))
                     /\ cmtIndex < Len(cmtComment.lines) => cmtPc' = "scan"
               /\ (cmtParsed.has_desc /\ isKv) =>
                     /\ ItemsOf(cmtParsed'.other, Strip(parts[1]))
                          = Append(ItemsOf(cmtParsed.other, Strip(parts[1])),
                                   Strip(parts[2]))
                     /\ cmtParsed'.desc = cmtParsed.desc
               /\ (cmtParsed.has_desc /\ ~isFf /\ ~isDef /\ ~isKv) =>
                     cmtParsed' = cmtParsed ]_vars

(***************************************************************************)
(* Claims about OwlXMLParser.read and makeTree (checked under SpecOwl and  *)
(* SpecOwlFair).                                                           *)
(***************************************************************************)
\* The document binds the OWL namespace to the prefix owl.
OwlPrefixIsOwl == \E i \in 1..Len(owlNs) : owlNs[i] = [prefix |-> "owl", uri |-> OwlUri]

(***************************************************************************)
(* C25: the step of read that handles the end of an element puts the       *)
(* element on the raw queue, once and behind those queued before it, if    *)
(* and only if its expanded tag is owl:Class and it has an attribute, and  *)
(* adds the target of an owl:imports element to the import set.            *)
(***************************************************************************)
C25_ClassesQueued ==
    [][ (/\ owlPc = "read" /\ owlEvents # <<>> /\ Head(owlEvents).ev = "end"
         /\ owlEvents' = Tail(owlEvents))
        => LET e == Head(owlEvents).elem
               item == [idx |-> EventIdx, elem |-> e]
           IN  /\ owlRaw' = IF e.tag = ClassTag /\ HasAttrib(e)
                             THEN Append(owlRaw, item) ELSE owlRaw
               /\ (e.tag = ImportsTag /\ e.resource # NoneStr)
                     => e.resource \in owlImports' ]_vars

\* C25 for the documents that bind the OWL namespace to the prefix owl.
C25_ClassesQueuedUnderOwlPrefix ==
    [][ (/\ owlPc = "read" /\ owlEvents # <<>> /\ Head(owlEvents).ev = "end"
         /\ owlEvents' = Tail(owlEvents) /\ OwlPrefixIsOwl)
        => LET e == Head(owlEvents).elem
               item == [idx |-> EventIdx, elem |-> e]
           IN  /\ owlRaw' = IF e.tag = ClassTag /\ HasAttrib(e)
                             THEN Append(owlRaw, item) ELSE owlRaw
               /\ (e.tag = ImportsTag /\ e.resource # NoneStr)
                     => e.resource \in owlImports' ]_vars

(***************************************************************************)
(* C26: with the calling thread and every classifier process scheduled     *)
(* fairly, makeTree eventually returns (unless read raised, when it is     *)
(* never called): the merge loop does not block forever on the result      *)
(* queue.                                                                  *)
(***************************************************************************)
C26_MakeTreeReturns == <>(owlPc \in {"done", "raised"})

\* C26 for the runs in which no classifier process dies.
C26_MakeTreeReturnsUnlessDied ==
    <>(owlPc \in {"done", "raised"} \/ \E w \in Workers : owlWorker[w].pc = "died")

(***************************************************************************)
(* C27 (checked under SpecAcc): the id that the OWL-XML pipeline stores,   *)
(* normalized by the classifier with its own map and then by makeTree      *)
(* with the document's map, is the raw accession normalized once with the  *)
(* document's map.                                                         *)
(***************************************************************************)
C27_TwoStagesAreOne ==
    (accPc = "stored" /\ accNs # NoNsmap) => accTid = accOut

(***************************************************************************)
(* C28 (checked under SpecEntity): through a live view, assigning to       *)
(* alternate_ids or to xrefs a set whose elements are all of the field's   *)
(* kind, the empty set included, raises nothing and stores exactly that    *)
(* set, and a read of the field returns the set last assigned.             *)
(***************************************************************************)
C28_SetRoundTrip ==
    \A f \in {"alternate_ids", "xrefs"} :
        /\ (/\ LastSet(f) /\ entDataAlive
             /\ IsSet(entLast.val)
             /\ \A x \in entLast.val.elems : AtomKind(x) = RightKind(f))
            => (entLast.err = "ok" /\ entData[f] = entLast.val.elems)
        /\ (LastGet(f) /\ entLast.err = "ok")
            => entLast.val = PySet(entAssigned[f])

=============================================================================
